---- MODULE Spec2Model ----
(***************************************************************************)
(* Model of the Turing machine simulators of emnh/turing-machines:         *)
(*   src/main.py     class TuringMachine (reset, load_tape, step, run)     *)
(*   src/animate.py  class TuringMachine (__init__, step)                  *)
(* Python lists are 0-based; TLA+ sequences are 1-based, so the cell with  *)
(* Python index i is t[i + 1].                                             *)
(***************************************************************************)
EXTENDS Integers, Sequences, FiniteSets, TLC

\* ------------------------------------------------------------------ bounds
\* longest input string handed to load_tape / longest initial tape list
MaxInput == 2
\* the tape is not grown beyond this many cells (guards of Step and RunStart)
MaxTape == 4
\* largest max_steps handed to run
MaxSteps == 3
\* longest list handed to the constructor of animate.py's machine
MaxList == 1
\* longest binary numeral loaded by a script that loads one input and runs
MaxBits == 4
\* longest all-ones input of such a script, and its largest small budget
MaxOnes == 10
\* longest input of the two simulators stepped side by side
MaxLock == 3

\* ------------------------------------------------------------------ values
Symbols == {"0", "1", "_"}
Directions == {"L", "R", "N"}

\* Python's None in the `written` slot of a step result
NoWritten == -1

\* values of run's local step_log: None, the initial "" and the 4-tuple
\* transitions[key] + (written,)
None == [kind |-> "None", new_state |-> "", write_symbol |-> "", direction |-> "", written |-> NoWritten]
EmptyStr == [kind |-> "str", new_state |-> "", write_symbol |-> "", direction |-> "", written |-> NoWritten]
StepTuple(rule, written) == [kind |-> "tuple", new_state |-> rule[1], write_symbol |-> rule[2], direction |-> rule[3], written |-> written]

\* Python truthiness of a step_log value: None and "" are falsy, a 4-tuple is truthy
Truthy(v) == v.kind = "tuple"

\* all strings over Symbols of length at most n
Strings(n) == UNION {[1..k -> Symbols] : k \in 0..n}
Inputs == Strings(MaxInput)

\* ------------------------------------------------------- transition tables
\* the example of main.py: increment a binary number
BinaryIncrement == (<<"q0", "0">> :> <<"q0", "0", "R">>) @@ (<<"q0", "1">> :> <<"q0", "1", "R">>) @@ (<<"q0", "_">> :> <<"carry", "_", "L">>) @@ (<<"carry", "0">> :> <<"accept", "1", "N">>) @@ (<<"carry", "1">> :> <<"carry", "0", "L">>) @@ (<<"carry", "_">> :> <<"accept", "1", "N">>)

\* the example of animate.py
AnimateExample == (<<"q0", "1">> :> <<"q0", "1", "R">>) @@ (<<"q0", "0">> :> <<"q1", "1", "R">>) @@ (<<"q1", "_">> :> <<"qH", "_", "R">>)

\* every table whose keys are among GenKeys and whose rules are among GenRules
GenKeys == {"q0"} \X {"1", "_"}
GenRules == {"q0", "accept"} \X {"1", "_"} \X Directions
GenTables == UNION {[K -> GenRules] : K \in SUBSET GenKeys}

\* a table that also has rules keyed on the accepting and the rejecting state
HaltKeyed == (<<"q0", "1">> :> <<"accept", "1", "R">>) @@ (<<"q0", "_">> :> <<"reject", "_", "L">>) @@ (<<"accept", "1">> :> <<"q0", "_", "R">>) @@ (<<"accept", "_">> :> <<"q0", "1", "L">>) @@ (<<"reject", "1">> :> <<"q0", "_", "L">>) @@ (<<"reject", "_">> :> <<"accept", "1", "R">>)

\* a table whose directions are neither 'L' nor 'R'
StayTable == (<<"q0", "1">> :> <<"q0", "_", "S">>) @@ (<<"q0", "_">> :> <<"q0", "1", "">>) @@ (<<"q0", "0">> :> <<"accept", "0", "N">>)

\* the unary-increment scenario: append a 1 to the numeral and walk back
UnaryIncrement == (<<"q0", "1">> :> <<"q0", "1", "R">>) @@ (<<"q0", "0">> :> <<"q0", "0", "R">>) @@ (<<"q0", "_">> :> <<"q1", "1", "L">>) @@ (<<"q1", "1">> :> <<"q1", "1", "L">>) @@ (<<"q1", "0">> :> <<"q1", "0", "L">>) @@ (<<"q1", "_">> :> <<"accept", "_", "R">>)

\* the exhaustion scenario: walk right over ones for ever
LoopOnes == (<<"q0", "1">> :> <<"q0", "1", "R">>)

\* the immediate-reject scenario: no transitions at all
EmptyTable == [k \in {} |-> <<"", "", "">>]

Tables == GenTables \cup {BinaryIncrement, AnimateExample, HaltKeyed, StayTable}

\* the tables given to animate.py's machines
AGenRules == {"q0"} \X {"1", "_"} \X Directions
AGenTables == UNION {[K -> AGenRules] : K \in SUBSET GenKeys}
\* a table in which a machine in state q1 has no rule on the blank, while a
\* machine in state q0 writes a 1 over a blank
WakeTable == (<<"q0", "1">> :> <<"q1", "_", "N">>) @@ (<<"q0", "_">> :> <<"q0", "1", "N">>) @@ (<<"q1", "1">> :> <<"q1", "1", "N">>)
AnimTables == AGenTables \cup {BinaryIncrement, AnimateExample, HaltKeyed, WakeTable}

VARIABLES
    \* the configuration given to __init__ (main.py lines 31-37)
    transitions, start_state, accept_state, reject_state, blank_symbol,
    \* the machine's mutable fields (main.py lines 42-44)
    tape, head_position, current_state,
    \* run(): where it is (idle: not running), its parameter and its locals
    pc, max_steps, step_count, output,
    \* the number of step() calls the current run has issued, and the machine
    \* as it was when the current run was called
    step_calls, run_from,
    \* the most recent call: which one (op), its argument (arg), which branch
    \* of step() it took (branch), the value step() returned (step_log, also
    \* run's local of that name), and what run printed after its loop or
    \* raised (verdict)
    op, arg, branch, step_log, verdict,
    \* animate.py: the list objects made by the caller (lists), the two
    \* TuringMachine instances (anim; anim[i].tape is a reference to a list),
    \* the instance of the most recent call (who) and what its step() returned
    lists, anim, who, aret

mvars == <<tape, head_position, current_state, pc, max_steps, step_count, output, step_calls, run_from, op, arg, branch, step_log, verdict>>
avars == <<lists, anim, who, aret>>
config == <<transitions, start_state, accept_state, reject_state, blank_symbol>>
vars == <<config, mvars, avars>>
locals == <<max_steps, step_count, output, step_calls, run_from>>

\* the machine's mutable fields as one value
Machine == [tape |-> tape, head_position |-> head_position, current_state |-> current_state]

\* ----------------------------------------------------------- main.py step
\* mutant of IsHalted: only the rejecting state halts the machine
IsHalted_rejectOnly(q) == q = reject_state

\* line 56: the machine is in the accepting or the rejecting state
IsHalted(q) == q \in {accept_state, reject_state}

\* line 61: the symbol under the head, blank past the end of the list
ReadSymbol(t, h) == IF h < Len(t) THEN t[h + 1] ELSE blank_symbol

\* lines 64-65: key in self.transitions
HasTransition(q, s) == <<q, s>> \in DOMAIN transitions

\* mutant of WriteTape: a cell that exists is never overwritten
WriteTape_noOverwrite(t, h, w) == IF h < Len(t) THEN t ELSE Append(t, w)

\* lines 76-81: the tape after the write
WriteTape(t, h, w) == IF h < Len(t) THEN [t EXCEPT ![h + 1] = w] ELSE Append(t, w)

\* lines 71, 76-78: `written` after the write
WriteWritten(t, h, w) == IF h < Len(t) /\ t[h + 1] # w THEN h ELSE NoWritten

\* mutant of MoveHead: a Left move at index 0 clamps the head and inserts nothing
MoveHead_clampLeft(t, h, d, written) ==
    IF d = "R"
    THEN IF h + 1 >= Len(t)
         THEN [tape |-> Append(t, blank_symbol), head_position |-> h + 1, written |-> h + 1]
         ELSE [tape |-> t, head_position |-> h + 1, written |-> written]
    ELSE IF d = "L"
    THEN [tape |-> t, head_position |-> (IF h > 0 THEN h - 1 ELSE 0), written |-> written]
    ELSE [tape |-> t, head_position |-> h, written |-> written]

\* mutant of MoveHead: a Left move at index 0 blanks the first cell in place
MoveHead_leftReplaces(t, h, d, written) ==
    IF d = "R"
    THEN IF h + 1 >= Len(t)
         THEN [tape |-> Append(t, blank_symbol), head_position |-> h + 1, written |-> h + 1]
         ELSE [tape |-> t, head_position |-> h + 1, written |-> written]
    ELSE IF d = "L"
    THEN IF h > 0
         THEN [tape |-> t, head_position |-> h - 1, written |-> written]
         ELSE [tape |-> [t EXCEPT ![1] = blank_symbol], head_position |-> 0, written |-> 0]
    ELSE [tape |-> t, head_position |-> h, written |-> written]

\* mutant of MoveHead: a Left move at index 0 adds its blank at the right end
MoveHead_leftAppends(t, h, d, written) ==
    IF d = "R"
    THEN IF h + 1 >= Len(t)
         THEN [tape |-> Append(t, blank_symbol), head_position |-> h + 1, written |-> h + 1]
         ELSE [tape |-> t, head_position |-> h + 1, written |-> written]
    ELSE IF d = "L"
    THEN IF h > 0
         THEN [tape |-> t, head_position |-> h - 1, written |-> written]
         ELSE [tape |-> Append(t, blank_symbol), head_position |-> 0, written |-> 0]
    ELSE [tape |-> t, head_position |-> h, written |-> written]

\* mutant of MoveHead: every direction other than 'L' moves the head right
MoveHead_stayMovesRight(t, h, d, written) ==
    IF d # "L"
    THEN IF h + 1 >= Len(t)
         THEN [tape |-> Append(t, blank_symbol), head_position |-> h + 1, written |-> h + 1]
         ELSE [tape |-> t, head_position |-> h + 1, written |-> written]
    ELSE IF h > 0
    THEN [tape |-> t, head_position |-> h - 1, written |-> written]
    ELSE [tape |-> <<blank_symbol>> \o t, head_position |-> 0, written |-> 0]

\* mutant of MoveHead: the Right move tests > where the code tests >=
MoveHead_rightOffByOne(t, h, d, written) ==
    IF d = "R"
    THEN IF h + 1 > Len(t)
         THEN [tape |-> Append(t, blank_symbol), head_position |-> h + 1, written |-> h + 1]
         ELSE [tape |-> t, head_position |-> h + 1, written |-> written]
    ELSE IF d = "L"
    THEN IF h > 0
         THEN [tape |-> t, head_position |-> h - 1, written |-> written]
         ELSE [tape |-> <<blank_symbol>> \o t, head_position |-> 0, written |-> 0]
    ELSE [tape |-> t, head_position |-> h, written |-> written]

\* lines 84-95: the head movement, on the tape t after the write
MoveHead(t, h, d, written) ==
    IF d = "R"
    THEN IF h + 1 >= Len(t)
         THEN [tape |-> Append(t, blank_symbol), head_position |-> h + 1, written |-> h + 1]
         ELSE [tape |-> t, head_position |-> h + 1, written |-> written]
    ELSE IF d = "L"
    THEN IF h > 0
         THEN [tape |-> t, head_position |-> h - 1, written |-> written]
         ELSE [tape |-> <<blank_symbol>> \o t, head_position |-> 0, written |-> 0]
    ELSE [tape |-> t, head_position |-> h, written |-> written]

\* lines 56-58: step() on a halted machine
HaltedResult(m) == [tape |-> m.tape, head_position |-> m.head_position, current_state |-> m.current_state, ret |-> None]

\* mutant of NoTransitionResult: the state is left as it was
NoTransitionResult_keepState(m) == [tape |-> m.tape, head_position |-> m.head_position, current_state |-> m.current_state, ret |-> None]

\* lines 65-68: step() when no transition is defined
NoTransitionResult(m) == [tape |-> m.tape, head_position |-> m.head_position, current_state |-> reject_state, ret |-> None]

\* lines 70-98: step() applying the rule (new_state, write_symbol, direction)
ContinueResult(m, rule) ==
    LET t1 == WriteTape(m.tape, m.head_position, rule[2])
        w1 == WriteWritten(m.tape, m.head_position, rule[2])
        mv == MoveHead(t1, m.head_position, rule[3], w1)
    IN  [tape |-> mv.tape, head_position |-> mv.head_position, current_state |-> rule[1], ret |-> StepTuple(rule, mv.written)]

\* lines 51-98: step() on the machine m; `ret` is the value returned
step(m) ==
    IF IsHalted(m.current_state) THEN HaltedResult(m)
    ELSE LET current_symbol == ReadSymbol(m.tape, m.head_position)
         IN  IF ~HasTransition(m.current_state, current_symbol)
             THEN NoTransitionResult(m)
             ELSE ContinueResult(m, transitions[<<m.current_state, current_symbol>>])

\* ------------------------------------------------------------ main.py run
\* lines 100-109: formatTape, each cell with the colour it is printed in
formatTape(t, head_pos, changed_symbol_pos) ==
    [i \in 1..Len(t) |->
        IF i - 1 = changed_symbol_pos THEN <<"MAGENTA", t[i]>>
        ELSE IF i - 1 = head_pos THEN <<"BLUE", t[i]>>
        ELSE <<"", t[i]>>]

\* lines 122, 124: self.tape[self.head_position] raises IndexError
MakeRowRaises(m) == ~(m.head_position < Len(m.tape))

\* lines 117-131: makeRow on the machine m (called when it does not raise)
makeRow(count, log, m) ==
    LET written == IF Truthy(log) THEN log.written ELSE NoWritten
        write_symbol == IF Truthy(log) THEN log.write_symbol ELSE m.tape[m.head_position + 1]
        direction == IF Truthy(log) THEN log.direction ELSE " "
    IN  [step |-> count, state |-> m.current_state, tape |-> formatTape(m.tape, m.head_position, written), direction |-> direction, changed |-> (m.tape[m.head_position + 1] # write_symbol)]

\* mutant of Classify: a machine that did not halt is reported as rejecting
Classify_noExhausted(q) ==
    IF q = accept_state THEN "Accepted"
    ELSE "Rejected"

\* lines 154-159: the message printed after the loop
Classify(q) ==
    IF q = accept_state THEN "Accepted"
    ELSE IF q = reject_state THEN "Rejected"
    ELSE "Exhausted"

\* line 111: the default of run's parameter max_steps
DefaultMaxSteps == 1000

\* mutant of LoopContinues: the loop runs once more
LoopContinues_inclusive(count, limit) == count <= limit

\* line 140: the loop condition
LoopContinues(count, limit) == count < limit

\* the branch of step() taken on the machine m
Branch(m) ==
    IF IsHalted(m.current_state) THEN "halted"
    ELSE IF ~HasTransition(m.current_state, ReadSymbol(m.tape, m.head_position)) THEN "no_transition"
    ELSE "continuing"

\* ---------------------------------------------------------------- actions
NoArg == <<>>

\* run_from while no run is in progress
NoMachine == [tape |-> <<>>, head_position |-> 0, current_state |-> ""]

\* the animate.py variables while only the main.py machine is used
AnimIdle ==
    /\ lists = [o \in {1, 2} |-> <<>>]
    /\ anim = [i \in {1, 2} |-> [tape |-> i, head |-> 0, state |-> "q0"]]
    /\ who = 0
    /\ aret = FALSE

\* lines 19-38: a machine constructed with a table of Tables; __init__ ends in reset()
Init ==
    /\ transitions \in Tables
    /\ start_state = "q0"
    /\ accept_state = "accept"
    /\ reject_state = "reject"
    /\ blank_symbol = "_"
    /\ tape = <<blank_symbol>>
    /\ head_position = 0
    /\ current_state = start_state
    /\ pc = "idle"
    /\ max_steps = 0
    /\ step_count = 0
    /\ output = <<>>
    /\ step_calls = 0
    /\ run_from = NoMachine
    /\ op = "init"
    /\ arg = NoArg
    /\ branch = "none"
    /\ step_log = None
    /\ verdict = "none"
    /\ AnimIdle

\* lines 40-44
Reset ==
    /\ pc = "idle"
    /\ tape' = <<blank_symbol>>
    /\ head_position' = 0
    /\ current_state' = start_state
    /\ op' = "reset"
    /\ arg' = NoArg
    /\ branch' = "none"
    /\ step_log' = None
    /\ verdict' = "none"
    /\ UNCHANGED <<config, pc, locals, avars>>

\* mutant of LoadTape: the head is left where it was
LoadTape_keepHead ==
    /\ pc = "idle"
    /\ \E input_string \in Inputs :
        /\ tape' = input_string
        /\ arg' = input_string
    /\ op' = "load_tape"
    /\ branch' = "none"
    /\ step_log' = None
    /\ verdict' = "none"
    /\ UNCHANGED <<config, head_position, current_state, pc, locals, avars>>

\* mutant of LoadTape: the state is reset to the start state as well
LoadTape_resetsState ==
    /\ pc = "idle"
    /\ \E input_string \in Inputs :
        /\ tape' = input_string
        /\ head_position' = 0
        /\ arg' = input_string
    /\ current_state' = start_state
    /\ op' = "load_tape"
    /\ branch' = "none"
    /\ step_log' = None
    /\ verdict' = "none"
    /\ UNCHANGED <<config, pc, locals, avars>>

\* lines 46-49
LoadTape ==
    /\ pc = "idle"
    /\ \E input_string \in Inputs :
        /\ tape' = input_string
        /\ head_position' = 0
        /\ arg' = input_string
    /\ op' = "load_tape"
    /\ branch' = "none"
    /\ step_log' = None
    /\ verdict' = "none"
    /\ UNCHANGED <<config, current_state, pc, locals, avars>>

\* lines 51-98: what a call of step() by the user of the machine does to it
StepBody ==
    /\ pc = "idle"
    /\ Len(tape) < MaxTape
    /\ LET r == step(Machine)
       IN  /\ tape' = r.tape
           /\ head_position' = r.head_position
           /\ current_state' = r.current_state
           /\ step_log' = r.ret
    /\ arg' = NoArg
    /\ branch' = Branch(Machine)
    /\ verdict' = "none"
    /\ UNCHANGED <<config, pc, locals>>

\* lines 51-98: step() called by the user of the machine
Step ==
    /\ StepBody
    /\ op' = "step"
    /\ UNCHANGED avars

\* lines 111, 133-138: run(n) up to the loop; makeRow(0, None) may raise
RunStartN(n) ==
    /\ pc = "idle"
    /\ arg' = <<n>>
    /\ IF MakeRowRaises(Machine)
       THEN /\ pc' = "idle"
            /\ verdict' = "IndexError"
            /\ step_log' = None
            /\ UNCHANGED locals
       ELSE /\ pc' = "loop"
            /\ max_steps' = n
            /\ step_count' = 0
            /\ step_calls' = 0
            /\ run_from' = Machine
            /\ step_log' = EmptyStr
            /\ output' = <<makeRow(0, None, Machine)>>
            /\ verdict' = "none"
    /\ op' = "run_start"
    /\ branch' = "none"
    /\ UNCHANGED <<config, tape, head_position, current_state, avars>>

\* run(max_steps) called with a small budget on a tape it cannot outgrow
RunStart ==
    \E n \in 0..MaxSteps :
        /\ Len(tape) + n <= MaxTape
        /\ RunStartN(n)

\* lines 140-149: one iteration of the loop
RunIter ==
    /\ pc = "loop"
    /\ LoopContinues(step_count, max_steps)
    /\ step_count' = step_count + 1
    /\ step_calls' = step_calls + 1
    /\ LET r == step(Machine)
           m1 == [tape |-> r.tape, head_position |-> r.head_position, current_state |-> r.current_state]
       IN  /\ tape' = r.tape
           /\ head_position' = r.head_position
           /\ current_state' = r.current_state
           /\ step_log' = r.ret
           /\ IF ~Truthy(r.ret)
              THEN /\ pc' = "break"
                   /\ UNCHANGED <<output, verdict>>
              ELSE IF MakeRowRaises(m1)
              THEN /\ pc' = "idle"
                   /\ verdict' = "IndexError"
                   /\ UNCHANGED output
              ELSE /\ pc' = "loop"
                   /\ output' = Append(output, makeRow(step_count + 1, r.ret, m1))
                   /\ UNCHANGED verdict
    /\ op' = "run_iter"
    /\ branch' = Branch(Machine)
    /\ UNCHANGED <<config, max_steps, run_from, arg, avars>>

\* lines 140, 151-159: the loop has ended; the table and the message are
\* printed and run returns, which ends the life of its locals
RunFinish ==
    /\ \/ pc = "break"
       \/ pc = "loop" /\ ~LoopContinues(step_count, max_steps)
    /\ verdict' = Classify(current_state)
    /\ pc' = "idle"
    /\ max_steps' = 0
    /\ step_count' = 0
    /\ output' = <<>>
    /\ step_calls' = 0
    /\ run_from' = NoMachine
    /\ step_log' = None
    /\ op' = "run_finish"
    /\ branch' = "none"
    /\ UNCHANGED <<config, tape, head_position, current_state, arg, avars>>

Next == Reset \/ LoadTape \/ Step \/ RunStart \/ RunIter \/ RunFinish

Spec == Init /\ [][Next]_vars

\* ------------------------------------------------------------- animate.py
\* the list objects the caller makes (initial_tape = list("1101"), line 82)
ListIds == {1, 2}
\* the two TuringMachine instances
Instances == {1, 2}

\* line 33: the symbol under the head, blank past the end of the list
AReadSymbol(t, h) == IF h < Len(t) THEN t[h + 1] ELSE blank_symbol

\* lines 41-44: the write, in place on the list self.tape refers to
AWriteTape(t, h, w) == IF h < Len(t) THEN [t EXCEPT ![h + 1] = w] ELSE Append(t, w)

\* mutant of AMoveHead: every direction other than 'R' moves the head left
AMoveHead_elseLeft(h, d) ==
    IF d = "R" THEN h + 1
    ELSE (IF h - 1 > 0 THEN h - 1 ELSE 0)

\* lines 47-50: the head after the move
AMoveHead(h, d) ==
    IF d = "R" THEN h + 1
    ELSE IF d = "L" THEN (IF h - 1 > 0 THEN h - 1 ELSE 0)
    ELSE h

\* the contents of the list instance i's tape field refers to
TapeOf(i) == lists[anim[i].tape]

\* lines 31-54: what step() of instance i does to it and to its list
AStepBody(i) ==
    /\ Len(TapeOf(i)) < MaxTape
    /\ LET self == anim[i]
           current_symbol == AReadSymbol(TapeOf(i), self.head)
           key == <<self.state, current_symbol>>
       IN  IF key \notin DOMAIN transitions
           THEN /\ aret' = FALSE
                /\ UNCHANGED <<lists, anim>>
           ELSE /\ lists' = [lists EXCEPT ![self.tape] = AWriteTape(@, self.head, transitions[key][2])]
                /\ anim' = [anim EXCEPT ![i].head = AMoveHead(self.head, transitions[key][3]), ![i].state = transitions[key][1]]
                /\ aret' = TRUE
    /\ who' = i

\* lines 31-54: step() of instance i
AStep(i) ==
    /\ AStepBody(i)
    /\ op' = "astep"
    /\ UNCHANGED config
    /\ UNCHANGED <<tape, head_position, current_state, pc, locals, arg, branch, step_log, verdict>>

\* lines 17-29: two instances, each constructed as TuringMachine(tape=<one of
\* the caller's lists>, initial_state="q0", transitions); self.tape = tape
\* keeps the caller's list object, and both may be given the same one
InitAnim ==
    /\ transitions \in AnimTables
    /\ start_state = "q0"
    /\ accept_state = "accept"
    /\ reject_state = "reject"
    /\ blank_symbol = "_"
    /\ tape = <<blank_symbol>>
    /\ head_position = 0
    /\ current_state = start_state
    /\ pc = "idle"
    /\ max_steps = 0
    /\ step_count = 0
    /\ output = <<>>
    /\ step_calls = 0
    /\ run_from = NoMachine
    /\ op = "init"
    /\ arg = NoArg
    /\ branch = "none"
    /\ step_log = None
    /\ verdict = "none"
    /\ lists \in [ListIds -> Strings(MaxList)]
    /\ anim \in [Instances -> [tape : ListIds, head : {0}, state : {"q0"}]]
    /\ who = 0
    /\ aret = FALSE

NextAnim == \E i \in Instances : AStep(i)

SpecAnim == InitAnim /\ [][NextAnim]_vars

\* ------------------------------------------------------------ main.py script
\* main.py lines 165-190 as a pattern: construct a machine from a table, load
\* one input, call run once.
BinaryStrings(n) == UNION {[1..k -> {"0", "1"}] : k \in 0..n}
OnesStrings(n) == {[i \in 1..k |-> "1"] : k \in 0..n}
ScriptInputs == BinaryStrings(MaxBits) \cup OnesStrings(MaxOnes)
ScriptTables == {BinaryIncrement, UnaryIncrement, LoopOnes, AnimateExample, HaltKeyed, EmptyTable}
ScriptBudgets == (0..MaxOnes) \cup {DefaultMaxSteps}

\* lines 180-188: tm = TuringMachine(...); tm.load_tape(input)
InitScript ==
    /\ transitions \in ScriptTables
    /\ start_state = "q0"
    /\ accept_state = "accept"
    /\ reject_state = "reject"
    /\ blank_symbol = "_"
    /\ \E input \in ScriptInputs : tape = input /\ arg = input
    /\ head_position = 0
    /\ current_state = start_state
    /\ pc = "idle"
    /\ max_steps = 0
    /\ step_count = 0
    /\ output = <<>>
    /\ step_calls = 0
    /\ run_from = NoMachine
    /\ op = "load_tape"
    /\ branch = "none"
    /\ step_log = None
    /\ verdict = "none"
    /\ AnimIdle

\* line 190: tm.run(), or run(n) with a budget
RunScript ==
    /\ op = "load_tape"
    /\ \E n \in ScriptBudgets : RunStartN(n)

NextScript == RunScript \/ RunIter \/ RunFinish

SpecScript == InitScript /\ [][NextScript]_vars

\* ------------------------------------------------- both simulators together
\* The same table and the same input given to main.py's machine (constructor,
\* load_tape) and to animate.py's machine (constructor on a list of its own),
\* and then one step() of each, call after call.
LockTables == GenTables \cup {BinaryIncrement, UnaryIncrement, AnimateExample, HaltKeyed, StayTable}
LockInputs == Strings(MaxLock)

\* main.py lines 19-49 and animate.py lines 17-29
InitLock ==
    /\ transitions \in LockTables
    /\ start_state = "q0"
    /\ accept_state = "accept"
    /\ reject_state = "reject"
    /\ blank_symbol = "_"
    /\ \E input \in LockInputs :
          /\ tape = input
          /\ arg = input
          /\ lists = [o \in ListIds |-> IF o = 1 THEN input ELSE <<>>]
    /\ head_position = 0
    /\ current_state = start_state
    /\ pc = "idle"
    /\ max_steps = 0
    /\ step_count = 0
    /\ output = <<>>
    /\ step_calls = 0
    /\ run_from = NoMachine
    /\ op = "load_tape"
    /\ branch = "none"
    /\ step_log = None
    /\ verdict = "none"
    /\ anim = [i \in Instances |-> [tape |-> i, head |-> 0, state |-> start_state]]
    /\ who = 0
    /\ aret = FALSE

\* main.py lines 51-98 and animate.py lines 31-54: one step() of each machine
LockStep ==
    /\ StepBody
    /\ AStepBody(1)
    /\ op' = "lockstep"

NextLock == LockStep

SpecLock == InitLock /\ [][NextLock]_vars

\* ------------------------------------------------------------------ claims
\* Helpers of the formulas below. They are written out from the variables and
\* do not use the operators of step(), so a change of step() shows in them.
Halting == {accept_state, reject_state}
\* the transition made a call of step(): by the user or by run's loop
StepCalled == op' \in {"step", "run_iter"}
\* a state from which step() was just called
AfterStep == op \in {"step", "run_iter"}
\* before the call: the symbol under the head, whether a rule applies, the rule
UnderHead == IF head_position < Len(tape) THEN tape[head_position + 1] ELSE blank_symbol
RuleApplies == current_state \notin Halting /\ <<current_state, UnderHead>> \in DOMAIN transitions
Rule == transitions[<<current_state, UnderHead>>]

\* C1: once current_state is the accept or the reject state, every call of
\* step() returns None and leaves tape, head_position and current_state as
\* they were (so the machine stays halted however often step() is called).
C1_HaltedStepIsNoOp ==
    [][(StepCalled /\ current_state \in Halting) =>
          (/\ step_log' = None
           /\ tape' = tape
           /\ head_position' = head_position
           /\ current_state' = current_state)]_vars

\* C1 witness: step() was called on a machine already in the accept state.
C1_Witness ==
    /\ op = "step" /\ branch = "halted"
    /\ current_state = accept_state /\ step_log = None /\ Len(tape) >= 2

\* C2: step() in a non-halting state with no rule for (current_state, symbol
\* under the head) sets current_state to reject_state, returns None and
\* leaves the tape and head_position as they were.
C2_NoTransitionRejects ==
    [][(StepCalled /\ current_state \notin Halting /\ <<current_state, UnderHead>> \notin DOMAIN transitions) =>
          (/\ current_state' = reject_state
           /\ step_log' = None
           /\ tape' = tape
           /\ head_position' = head_position)]_vars

\* C2 witness: step() found no rule and the machine is now rejecting.
C2_Witness ==
    /\ AfterStep /\ branch = "no_transition"
    /\ current_state = reject_state /\ step_log = None /\ tape # <<>>

\* C3: while run(max_steps) is running it has issued at most max_steps calls
\* of step(), step_count counts them, and the rows it has accumulated are the
\* row of step 0 followed by one step record per continuing call, numbered
\* 1, 2, ...: at most max_steps step records. The run is never stuck, and
\* every step of it either is the last one (run returns or raises) or raises
\* step_count by one, which stays at most max_steps: the run terminates
\* after at most max_steps iterations.
C3_RunBounded ==
    /\ [](pc # "idle" =>
            /\ step_calls <= max_steps
            /\ step_count = step_calls
            /\ Len(output) >= 1
            /\ Len(output) - 1 <= max_steps
            /\ \A k \in 1..Len(output) : output[k].step = k - 1
            /\ pc = "loop" => Len(output) - 1 = step_calls
            /\ pc = "break" => Len(output) - 1 = step_calls - 1
            /\ ENABLED (RunIter \/ RunFinish))
    /\ [][pc # "idle" =>
            \/ pc' = "idle"
            \/ /\ max_steps' = max_steps
               /\ step_count' = step_count + 1
               /\ step_count' <= max_steps
               /\ step_calls' = step_calls + 1]_vars

\* C3 witness: a run that used its whole budget of at least two steps.
C3_Witness ==
    /\ pc = "loop" /\ max_steps >= 2
    /\ step_calls = max_steps /\ Len(output) - 1 = max_steps

\* C4: when run prints its message, it is Accepted exactly when current_state
\* is accept_state, Rejected exactly when it is reject_state and Exhausted
\* otherwise; Exhausted is printed only when the loop ended by its condition
\* after exactly max_steps calls of step(), each of which appended a step
\* record, with the machine in a non-halting state.
C4_Verdict ==
    [][(pc # "idle" /\ pc' = "idle" /\ verdict' # "IndexError") =>
          (/\ verdict' \in {"Accepted", "Rejected", "Exhausted"}
           /\ verdict' = "Accepted" <=> current_state' = accept_state
           /\ verdict' = "Rejected" <=> current_state' = reject_state
           /\ verdict' = "Exhausted" <=> current_state' \notin Halting
           /\ current_state' = current_state
           /\ verdict' = "Exhausted" =>
                 (/\ pc = "loop"
                  /\ step_calls = max_steps
                  /\ Len(output) - 1 = max_steps
                  /\ max_steps > 0 => step_log.kind = "tuple"))]_vars

\* C4 witness: a run of a machine that moved has ended Exhausted.
C4_Witness ==
    /\ op = "run_finish" /\ verdict = "Exhausted"
    /\ current_state \notin Halting /\ head_position > 0

\* C5: run() never raises: for every loaded input, the empty string included,
\* it ends with one of the three messages.
C5_RunNeverRaises == verdict # "IndexError"

\* C6 as claimed: a Left rule applied with head_position = 0 makes the tape
\* exactly one cell longer, keeps head_position at 0, puts a blank at index 0
\* and the written symbol at index 1, and shifts every other cell up by one.
C6_LeftAtZeroGrowsByOne ==
    [][(StepCalled /\ RuleApplies /\ Rule[3] = "L" /\ head_position = 0) =>
          (/\ Len(tape') = Len(tape) + 1
           /\ head_position' = 0
           /\ tape'[1] = blank_symbol
           /\ tape'[2] = Rule[2]
           /\ \A i \in 2..Len(tape) : tape'[i + 1] = tape[i])]_vars

\* C6 as amended: the tape grows by one cell over its length after the write,
\* which is one cell more than before on a non-empty tape and two cells more
\* on an empty tape (where the write appends the written symbol first);
\* head_position stays 0, index 0 holds a blank, index 1 the written symbol,
\* and every other cell is shifted up by one.
C6_LeftAtZeroInsertsBlank ==
    [][(StepCalled /\ RuleApplies /\ Rule[3] = "L" /\ head_position = 0) =>
          (/\ Len(tape') = (IF tape = <<>> THEN 2 ELSE Len(tape) + 1)
           /\ head_position' = 0
           /\ tape'[1] = blank_symbol
           /\ tape'[2] = Rule[2]
           /\ \A i \in 2..Len(tape) : tape'[i + 1] = tape[i])]_vars

\* C6 witness: a Left rule was applied at index 0 of a tape of two or more
\* cells (written = 0 with direction L happens only then).
C6_Witness ==
    /\ AfterStep /\ branch = "continuing"
    /\ step_log.direction = "L" /\ step_log.written = 0
    /\ head_position = 0 /\ tape[1] = blank_symbol /\ Len(tape) >= 3

\* C7: a Right rule applied with the head on the last cell of the tape makes
\* the tape exactly one cell longer, the new last cell holds the blank symbol
\* and head_position is on it.
C7_RightAtEndAppendsBlank ==
    [][(StepCalled /\ RuleApplies /\ Rule[3] = "R" /\ Len(tape) >= 1 /\ head_position = Len(tape) - 1) =>
          (/\ Len(tape') = Len(tape) + 1
           /\ tape'[Len(tape')] = blank_symbol
           /\ head_position' = Len(tape') - 1
           /\ \A i \in 1..Len(tape) - 1 : tape'[i] = tape[i]
           /\ tape'[Len(tape)] = Rule[2])]_vars

\* C7 witness: a Right rule was applied on the last cell of a tape of two or
\* more cells.
C7_Witness ==
    /\ AfterStep /\ branch = "continuing"
    /\ step_log.direction = "R" /\ step_log.written = head_position
    /\ head_position = Len(tape) - 1 /\ tape[Len(tape)] = blank_symbol /\ Len(tape) >= 3

\* C8: in every state 0 <= head_position <= len(tape), and head_position <
\* len(tape) unless the tape is empty; the tape becomes empty only by
\* load_tape of the empty input; and the write of step() appends (line 81)
\* only when the tape is empty.
C8_HeadWithinTape ==
    /\ [](/\ 0 <= head_position
          /\ head_position <= Len(tape)
          /\ head_position < Len(tape) \/ tape = <<>>)
    /\ [][/\ (tape' = <<>> /\ tape # <<>>) => (op' = "load_tape" /\ arg' = <<>>)
          /\ (StepCalled /\ RuleApplies /\ ~(head_position < Len(tape))) =>
                (tape = <<>> /\ head_position = 0 /\ Len(tape') >= 1)]_vars

\* C8 witness: the write of step() appended to an empty tape (the only rule is
\* keyed on the blank, so the step read a blank; on the tape [blank] the write
\* of another symbol would have set written).
C8_Witness ==
    /\ AfterStep /\ branch = "continuing"
    /\ step_log.direction = "N" /\ Len(tape) = 1 /\ head_position = 0
    /\ op = "step" /\ tape[1] = step_log.write_symbol /\ step_log.written = NoWritten
    /\ tape[1] # blank_symbol /\ DOMAIN transitions = {<<"q0", "_">>}

\* C9: reset() sets tape = [blank], head_position = 0 and current_state =
\* start_state; load_tape(input) sets the tape to the input and head_position
\* to 0 and leaves current_state as it was, so a halted machine is still
\* halted after load_tape and step() then returns None; neither changes the
\* transition table, the start, accept and reject states or the blank symbol.
C9_ResetAndLoadTape ==
    [][/\ op' = "reset" =>
             (/\ tape' = <<blank_symbol>>
              /\ head_position' = 0
              /\ current_state' = start_state
              /\ config' = config)
       /\ op' = "load_tape" =>
             (/\ tape' = arg'
              /\ head_position' = 0
              /\ current_state' = current_state
              /\ config' = config)
       /\ (op = "load_tape" /\ current_state \in Halting /\ StepCalled) =>
             (step_log' = None /\ current_state' = current_state /\ tape' = arg)]_vars

\* C9 witness: load_tape of a non-empty input on a machine that had accepted.
C9_Witness ==
    /\ op = "load_tape" /\ current_state = accept_state
    /\ tape = arg /\ Len(tape) = 2 /\ head_position = 0

\* C10: a step() of one instance never changes the tape, the head or the
\* state of the other instance, also when both were constructed from the
\* same list object.
C10_NoSharedState ==
    [][\A i, j \in Instances :
          (i # j /\ op' = "astep" /\ who' = i) =>
              (lists'[anim'[j].tape] = lists[anim[j].tape] /\ anim'[j] = anim[j])]_vars

\* Helpers of the claims about whole runs.
\* run has just returned with a verdict (the transition is RunFinish)
RunReturned == op' = "run_finish"
\* every cell is a binary digit
IsBinary(s) == \A i \in 1..Len(s) : s[i] \in {"0", "1"}
\* every cell is the digit 1
AllOnes(s) == \A i \in 1..Len(s) : s[i] = "1"
\* the number a string of binary digits denotes, most significant digit first
BinValue(s) ==
    LET v[k \in 0..Len(s)] == IF k = 0 THEN 0 ELSE 2 * v[k - 1] + (IF s[k] = "1" THEN 1 ELSE 0)
    IN  v[Len(s)]
\* the tape without its last cell
Front(s) == SubSeq(s, 1, Len(s) - 1)
\* run() was called, with the default budget, on a non-empty binary input
\* loaded into a machine with the binary-increment table
BinaryIncrementRun ==
    /\ transitions = BinaryIncrement
    /\ arg = <<DefaultMaxSteps>>
    /\ run_from.tape # <<>> /\ IsBinary(run_from.tape)
    /\ run_from.head_position = 0 /\ run_from.current_state = start_state

\* C11 as stated: with main.py's binary-increment table every non-empty
\* binary input halts Accepted and the final tape is a binary numeral (digits
\* only) of the input's value plus one; "110" ends as "111".
C11_BinaryIncrementExact ==
    [][(RunReturned /\ BinaryIncrementRun) =>
          (/\ verdict' = "Accepted"
           /\ IsBinary(tape')
           /\ BinValue(tape') = BinValue(run_from.tape) + 1)]_vars

\* C11 amended: with main.py's binary-increment table every non-empty binary
\* input halts Accepted, and the final tape is the numeral of the input's
\* value plus one, as wide as the input (one digit wider when the input is all
\* ones), followed by the one blank cell the scan to the right end appended;
\* "110" ends as "111_".
C11_BinaryIncrementTrailingBlank ==
    [][(RunReturned /\ BinaryIncrementRun) =>
          (/\ verdict' = "Accepted"
           /\ Len(tape') = Len(run_from.tape) + 1 + (IF AllOnes(run_from.tape) THEN 1 ELSE 0)
           /\ tape'[Len(tape')] = blank_symbol
           /\ IsBinary(Front(tape'))
           /\ BinValue(Front(tape')) = BinValue(run_from.tape) + 1
           /\ (run_from.tape = <<"1", "1", "0">> => tape' = <<"1", "1", "1", "_">>))]_vars

\* C11 witness: the run of main.py's example has returned: Accepted, with
\* the tape 1 1 1 _ and the head on the last digit.
C11_Witness ==
    /\ op = "run_finish" /\ transitions = BinaryIncrement /\ arg = <<DefaultMaxSteps>>
    /\ verdict = "Accepted" /\ tape = <<"1", "1", "1", "_">> /\ head_position = 2

\* run() was called, with the default budget, on a non-empty binary input
\* loaded into a machine with the unary-increment table
UnaryIncrementRun ==
    /\ transitions = UnaryIncrement
    /\ arg = <<DefaultMaxSteps>>
    /\ run_from.tape # <<>> /\ IsBinary(run_from.tape)
    /\ run_from.head_position = 0 /\ run_from.current_state = start_state

\* C12 as stated: with the unary-increment table and input "110", run halts
\* Accepted and the final tape is "1101".
C12_UnaryIncrementExact ==
    [][(RunReturned /\ UnaryIncrementRun /\ run_from.tape = <<"1", "1", "0">>) =>
          (verdict' = "Accepted" /\ tape' = <<"1", "1", "0", "1">>)]_vars

\* C12 amended: with the unary-increment table and input "110", run halts
\* Accepted and the final tape is "_1101": the walk back to the left end
\* moves Left at index 0, which inserts a blank cell in front of the numeral;
\* the head ends on the first digit, at index 1. The same holds of every
\* non-empty binary input: blank, the input, 1.
C12_UnaryIncrementLeadingBlank ==
    [][(RunReturned /\ UnaryIncrementRun) =>
          (/\ verdict' = "Accepted"
           /\ tape' = <<blank_symbol>> \o run_from.tape \o <<"1">>
           /\ head_position' = 1
           /\ (run_from.tape = <<"1", "1", "0">> => tape' = <<"_", "1", "1", "0", "1">>))]_vars

\* C12 witness: the run of the scenario has returned: Accepted, tape _ 1 1 0 1.
C12_Witness ==
    /\ op = "run_finish" /\ transitions = UnaryIncrement /\ arg = <<DefaultMaxSteps>>
    /\ verdict = "Accepted" /\ tape = <<"_", "1", "1", "0", "1">> /\ head_position = 1

\* run(n) with n >= 1 was called on a machine that was reset or constructed
\* and loaded with a non-empty input whose first symbol has no rule in the
\* start state
ImmediateRejectRun ==
    /\ arg[1] >= 1
    /\ run_from.tape # <<>>
    /\ run_from.head_position = 0 /\ run_from.current_state = start_state
    /\ <<start_state, run_from.tape[1]>> \notin DOMAIN transitions

\* C13: if the table has no entry for (start state, first input symbol),
\* run() on the freshly loaded machine returns Rejected after exactly one
\* call of step(), with no step record after the row of step 0, the tape as
\* loaded and the head still at 0.
C13_ImmediateReject ==
    [][(RunReturned /\ ImmediateRejectRun) =>
          (/\ verdict' = "Rejected"
           /\ step_calls = 1
           /\ Len(output) = 1 /\ output[1].step = 0
           /\ current_state' = reject_state
           /\ tape' = run_from.tape
           /\ head_position' = 0)]_vars

\* C13 witness: run(), with the default budget, on an empty table and the
\* input "0": the loop has ended after its first step() found no rule.
C13_Witness ==
    /\ pc = "break" /\ transitions = EmptyTable /\ max_steps = DefaultMaxSteps
    /\ run_from.tape = <<"0">> /\ tape = <<"0">>
    /\ step_calls = 1 /\ Len(output) = 1 /\ current_state = reject_state

\* the execution from machine m takes at least n continuing steps: each of
\* its first n calls of step() finds the machine not halted and finds a rule,
\* and the state after the n-th is neither the accept nor the reject state
ContinuesFor(m, n) ==
    LET conf[k \in 0..n] == IF k = 0 THEN m ELSE step(conf[k - 1])
    IN  /\ \A k \in 0..(n - 1) : Branch(conf[k]) = "continuing"
        /\ conf[n].current_state \notin Halting

C15_WrittenReportsOnlyWrite ==
    [][(StepCalled /\ RuleApplies /\ head_position < Len(tape)) =>
          (/\ UnderHead = Rule[2] => step_log'.written = NoWritten
           /\ UnderHead # Rule[2] =>
                 \/ step_log'.written = head_position
                 \/ step_log'.written = head_position + 1 /\ Len(tape') > Len(tape) /\ Rule[3] = "L")]_vars

\* C16: a write at head_position = len(tape) extends the tape by one cell
\* holding the written symbol and is reported as a change: `written` is
\* present and is the index written (its index when written, or one more
\* when a blank was then inserted in front), whatever symbol and direction.
C16_ExtensionWriteReported ==
    [][(StepCalled /\ RuleApplies /\ head_position = Len(tape)) =>
          (/\ Len(tape') >= Len(tape) + 1
           /\ \/ step_log'.written = head_position /\ tape'[head_position + 1] = Rule[2]
              \/ step_log'.written = head_position + 1 /\ tape'[head_position + 2] = Rule[2] /\ Rule[3] = "L")]_vars

\* C17: a continuing step with rule (next_state, write_symbol, direction)
\* sets current_state to next_state; the cell that was under the head holds
\* write_symbol, every other cell the tape had keeps its symbol, at the same
\* index or one higher when a blank was inserted in front, every further cell
\* is blank, and no call of step() makes the tape shorter.
C17_TapeOnlyGrows ==
    [][/\ StepCalled => Len(tape') >= Len(tape)
       /\ (StepCalled /\ RuleApplies) =>
             LET off == IF Rule[3] = "L" /\ head_position = 0 THEN 1 ELSE 0
                 under == head_position + 1
             IN  /\ current_state' = Rule[1]
                 /\ Len(tape') >= Len(tape) + off
                 /\ Len(tape') >= under + off
                 /\ tape'[under + off] = Rule[2]
                 /\ \A i \in 1..Len(tape) : i # under => tape'[i + off] = tape[i]
                 /\ \A j \in 1..Len(tape') :
                       (j - off \notin 1..Len(tape) /\ j # under + off) => tape'[j] = blank_symbol]_vars

\* C17 witness: a Left move at index 0 of the tape 1 1 has put a blank in
\* front, and both old cells are one index higher.
C17_Witness ==
    /\ op = "step" /\ branch = "continuing"
    /\ step_log.direction = "L" /\ step_log.written = 0 /\ head_position = 0
    /\ tape = <<"_", "1", "1">>

\* C18: a step moves the head by at most one cell: by exactly +1 on 'R', by
\* exactly -1 on 'L' when head_position > 0, not at all on 'L' at index 0, and
\* not at all on any other direction value, which also adds no cell beyond
\* the one an extending write adds; a step that applies no rule leaves the
\* head where it is.
C18_HeadMovesByOne ==
    [][/\ (StepCalled /\ ~RuleApplies) => head_position' = head_position
       /\ (StepCalled /\ RuleApplies) =>
             /\ Rule[3] = "R" => head_position' = head_position + 1
             /\ (Rule[3] = "L" /\ head_position > 0) => head_position' = head_position - 1
             /\ (Rule[3] = "L" /\ head_position = 0) => head_position' = 0
             /\ Rule[3] \notin {"L", "R"} =>
                   /\ head_position' = head_position
                   /\ Len(tape') = (IF head_position < Len(tape) THEN Len(tape) ELSE Len(tape) + 1)]_vars

\* C18 witness: a step with direction 'N' has written at index 1 of a
\* two-cell tape and left the head there.
C18_Witness ==
    /\ AfterStep /\ branch = "continuing"
    /\ step_log.direction = "N" /\ step_log.written = 1 /\ head_position = 1
    /\ tape = <<"1", "1">>

\* instance i has no rule for (state, symbol under its head)
Stuck(i) == <<anim[i].state, (IF anim[i].head < Len(TapeOf(i)) THEN TapeOf(i)[anim[i].head + 1] ELSE blank_symbol)>> \notin DOMAIN transitions
\* the rule instance i would apply
ARule(i) == transitions[<<anim[i].state, (IF anim[i].head < Len(TapeOf(i)) THEN TapeOf(i)[anim[i].head + 1] ELSE blank_symbol)>>]

\* C19: animate.py's step() returns False exactly when no rule is defined
\* for (state, symbol under the head) and then changes nothing, and an
\* instance that has no rule never has one again, so every later step() also
\* returns False; otherwise it returns True after applying the rule, a Left
\* move at head 0 leaves the head at 0 and adds no cell, and 0 <= head <=
\* len(tape) in every reachable state.
C19_AnimateStep ==
    [][\A i \in Instances :
             /\ 0 <= anim'[i].head /\ anim'[i].head <= Len(lists'[anim'[i].tape])
             /\ Stuck(i) => Stuck(i)'
             /\ (op' = "astep" /\ who' = i) =>
                   /\ aret' = (~Stuck(i))
                   /\ Stuck(i) => (anim'[i] = anim[i] /\ lists' = lists)
                   /\ ~Stuck(i) =>
                         /\ anim'[i].state = ARule(i)[1]
                         /\ Len(lists'[anim[i].tape]) = (IF anim[i].head < Len(TapeOf(i)) THEN Len(TapeOf(i)) ELSE Len(TapeOf(i)) + 1)
                         /\ lists'[anim[i].tape][anim[i].head + 1] = ARule(i)[2]
                         /\ (ARule(i)[3] = "L" /\ anim[i].head = 0) => anim'[i].head = 0]_vars

\* a tape without its trailing blank cells
StripBlanks(t) ==
    LET n == CHOOSE k \in 0..Len(t) :
                 /\ k = 0 \/ t[k] # blank_symbol
                 /\ \A j \in (k + 1)..Len(t) : t[j] = blank_symbol
    IN  SubSeq(t, 1, n)
\* the two machines are in the same state with the same head position, and
\* their tapes are equal up to trailing blank cells
Agree ==
    /\ anim[1].state = current_state
    /\ anim[1].head = head_position
    /\ StripBlanks(TapeOf(1)) = StripBlanks(tape)
\* the table has no rule keyed on the accept or the reject state
NoHaltKeys == \A k \in DOMAIN transitions : k[1] \notin Halting

\* C20: with a table that has no rule keyed on the accept or the reject
\* state, the two machines agree after being given the same input, and one
\* step() of each from a configuration in which they agree has these
\* outcomes: animate.py's returns False exactly when main.py's returns None;
\* when main.py's step applies a rule that is not a Left move at head 0, they
\* agree again (same state, same head, tapes equal up to trailing blanks);
\* when main.py's step halts, animate.py's changes nothing.
C20_LockstepAgreement ==
    /\ (op = "load_tape" => Agree)
    /\ [][(op' = "lockstep" /\ NoHaltKeys /\ Agree) =>
             /\ (aret' = FALSE) <=> (step_log' = None)
             /\ (RuleApplies /\ ~(Rule[3] = "L" /\ head_position = 0)) =>
                   (Agree' /\ aret' = TRUE /\ step_log'.kind = "tuple")
             /\ ~RuleApplies =>
                   (aret' = FALSE /\ lists' = lists /\ anim' = anim /\ tape' = tape /\ head_position' = head_position)]_vars

\* C20 witness: after two steps to the right over the input "1" with a rule
\* that writes 1 on the blank, both machines are in the same state at index
\* 2; main.py's tape has a trailing blank animate.py's tape does not have.
C20_Witness ==
    /\ op = "lockstep" /\ NoHaltKeys /\ aret = TRUE /\ step_log.kind = "tuple"
    /\ anim[1].state = current_state /\ anim[1].head = 2 /\ head_position = 2
    /\ tape = <<"1", "1", "_">> /\ TapeOf(1) = <<"1", "1">>

====
